---- MODULE Spec2Model ----
(***************************************************************************)
(* SECOORA assets map: spreadsheet rows -> GeoJSON features -> files.      *)
(*                                                                         *)
(* The three scripts are modelled side by side:                            *)
(*   data_frame2gis.py    (names as in the source)                         *)
(*   hfradar_geojson.py   (names prefixed hf_)                             *)
(*   stations_geojson.py  (names prefixed st_)                             *)
(*                                                                         *)
(* Conventions of the model                                                *)
(*   - a Python call is an operator returning [exc, value]: exc = "none"   *)
(*     when the call returns value, otherwise the name of the exception    *)
(*     that propagates out of it;                                          *)
(*   - a numeric spreadsheet cell that may be blank is a sequence: <<n>>   *)
(*     for the number n, <<>> for NaN (what pandas reads from a blank      *)
(*     cell);                                                              *)
(*   - MHz is kept in tenths of a MHz (85 is 8.5 MHz) so that int() is a   *)
(*     real truncation; the radius ranges[..] / 111.1 is kept as the       *)
(*     fraction num/den;                                                   *)
(*   - a vertex of a wedge path is [patch, pt]: pt = 0 is the centre,      *)
(*     pt = i > 0 the i-th vertex of the arc.                              *)
(***************************************************************************)
EXTENDS Integers, Sequences, FiniteSets, TLC

VARIABLES pc, df, geojson, files, exc, patch, polygon

vars == <<pc, df, geojson, files, exc, patch, polygon>>

-----------------------------------------------------------------------------
(* Bounds                                                                  *)

MaxRows == 2
MaxMainRows == 2
MaxFeatures == 3

-----------------------------------------------------------------------------
(* Python values                                                           *)

None == [None |-> TRUE]
NaN == <<>>
Return(v) == [exc |-> "none", value |-> v]
Raise(e) == [exc |-> e, value |-> None]
EmptyDict == <<>>

\* float + float, NaN absorbing
add(a, b) == IF a = NaN \/ b = NaN THEN NaN ELSE <<a[1] + b[1]>>

\* int(x) of a non-negative number kept in tenths
int(x) == x \div 10

\* Python's ordering of the strings that occur as group keys
StrOrder ==
  << "Construction", "Decommissioned", "Fixed Bottom Station",
     "Fixed Surface Buoy", "Glider", "HFRadar", "Operational",
     "Permitting", "Planned" >>

Rank(s) == CHOOSE i \in DOMAIN StrOrder : StrOrder[i] = s

-----------------------------------------------------------------------------
(* geojson package constructors                                            *)

Point(c) == [type |-> "Point", coordinates |-> c]
Polygon(c) == [type |-> "Polygon", coordinates |-> c]
Feature(g, p) == [type |-> "Feature", geometry |-> g, properties |-> p]
FeatureCollection(fs) == [type |-> "FeatureCollection", features |-> fs]

-----------------------------------------------------------------------------
(* matplotlib.patches.Wedge, as far as the scripts use it                  *)

\* Wedge(center, r, theta1, theta2): the path is computed in the
\* constructor; a NaN angle makes int(2 ** ceil(..)) raise ValueError.
Wedge(center, r, theta1, theta2) ==
  IF theta1 = NaN \/ theta2 = NaN
  THEN Raise("ValueError")
  ELSE Return([center |-> center, r |-> r,
               theta1 |-> theta1[1], theta2 |-> theta2[1]])

\* angular extent of the sector swept counter-clockwise from theta1 to theta2
Sweep(theta1, theta2) ==
  LET eta2 == theta2 - 360 * ((theta2 - theta1) \div 360)
  IN  IF theta2 # theta1 /\ eta2 <= theta1 THEN eta2 + 360 - theta1
      ELSE eta2 - theta1

\* number of arc vertices: n = 2 ** ceil(extent / 90) cubic segments
ArcLen(p) ==
  LET n == 2 ^ ((Sweep(p.theta1, p.theta2) + 89) \div 90)
  IN  3 * n + 1

\* patch.get_path().vertices.tolist(): arc, centre, arc[0], centre
get_path_vertices(p) ==
  LET arc == [i \in 1..ArcLen(p) |-> [patch |-> p, pt |-> i]]
      c == [patch |-> p, pt |-> 0]
  IN  arc \o << c, arc[1], c >>

-----------------------------------------------------------------------------
(* data_frame2gis.py                                                       *)

url == "https://raw.githubusercontent.com/ocefpaf/secoora_assets_map/gh-pages/secoora_icons/"

status_colors ==
  [Planned |-> "orange", Operational |-> "green",
   Permitting |-> "yellow", Construction |-> "yellow"]

platforms_icons ==
  ("Fixed Surface Buoy" :> "buoy") @@ ("Fixed Bottom Station" :> "circ") @@
  ("Fixed Bottom Mount Mooring" :> "tri") @@
  ("Fixed Coastal Station" :> "shore_station") @@ ("HFRadar" :> "hfradar")

icon(kw) == url \o kw.platform \o "-" \o kw.status \o ".png"

ranges == (5 :> 190) @@ (8 :> 160) @@ (12 :> 130) @@ (16 :> 100)

\* as wedge, with the angles handed over as (start, start + spread)
wedge_start_first(radar) ==
  IF int(radar.MHz) \notin DOMAIN ranges THEN Raise("KeyError")
  ELSE
    LET r == [num |-> ranges[int(radar.MHz)] * 10, den |-> 1111]
        theta1 == radar.StartAngle
        theta2 == radar.SpreadAngle
        center == <<radar.Longitude, radar.Latitude>>
        w == Wedge(center, r, theta1, add(theta1, theta2))
    IN  IF w.exc = "ValueError" THEN Return(None) ELSE w

wedge(radar) ==
  IF int(radar.MHz) \notin DOMAIN ranges THEN Raise("KeyError")
  ELSE
    LET r == [num |-> ranges[int(radar.MHz)] * 10, den |-> 1111]
        theta1 == radar.StartAngle
        theta2 == radar.SpreadAngle
        center == <<radar.Longitude, radar.Latitude>>
        w == Wedge(center, r, add(theta1, theta2), theta1)
    IN  IF w.exc = "ValueError" THEN Return(None) ELSE w

\* as mpl_patch2geo_polygon, closing with the last vertex (vertices[-1])
mpl_patch2geo_polygon_last(p) ==
  LET vertices == get_path_vertices(p)
  IN  Polygon(<< vertices \o << vertices[Len(vertices)] >> >>)

mpl_patch2geo_polygon(p) ==
  LET vertices == get_path_vertices(p)
  IN  Polygon(<< vertices \o << vertices[Len(vertices) - 1] >> >>)

\* as groupby_Status with sort=False: the keys in order of first appearance
groupby_Status_unsorted(d) ==
  LET first(i) == \A j \in 1..(i - 1) : d[j].Status # d[i].Status
      idx == SelectSeq([i \in DOMAIN d |-> i], LAMBDA i : first(i))
  IN  [k \in DOMAIN idx |-> d[idx[k]].Status]

\* df.groupby("Status"): the keys present, ascending
groupby_Status(d) ==
  SelectSeq(StrOrder, LAMBDA s : \E i \in DOMAIN d : d[i].Status = s)

\* df.groupby(["PlatformType", "Status"]): the key pairs present, ascending
groupby_PlatformType_Status(d) ==
  LET N == Len(StrOrder)
      pairs == [k \in 1..(N * N) |->
                  << StrOrder[((k - 1) \div N) + 1],
                     StrOrder[((k - 1) % N) + 1] >>]
  IN  SelectSeq(pairs, LAMBDA ps : \E i \in DOMAIN d :
                  d[i].PlatformType = ps[1] /\ d[i].Status = ps[2])

\* the local variables of parse_hfradar between two rows; polygon is <<>>
\* while the name is unbound and <<p>> once it is bound to p
Locals0 == [points |-> <<>>, polygons |-> <<>>, polygon |-> <<>>,
            exc |-> "none"]

\* one pass of the inner loop body, lines 106-117
parse_hfradar_row(row, kw, defaults, st) ==
  LET popupContent == << row.DisplayTitle, row.MHz >>
      properties == [icon |-> icon(kw), name |-> row.index,
                     popupContent |-> popupContent]
      w == wedge(row)
  IN  IF w.exc # "none" THEN [st EXCEPT !.exc = w.exc]
      ELSE
        LET bound == IF w.value # None
                     THEN << mpl_patch2geo_polygon(w.value) >>
                     ELSE st.polygon
            point == Point(<< row.Longitude, row.Latitude >>)
        IN  IF bound = <<>>
            THEN [st EXCEPT !.exc = "UnboundLocalError"]
            ELSE [points |-> Append(st.points, Feature(point, properties)),
                  polygons |-> Append(st.polygons,
                                      Feature(bound[1], defaults)),
                  polygon |-> bound,
                  exc |-> "none"]

RECURSIVE parse_hfradar_group(_, _, _, _)
parse_hfradar_group(group, kw, defaults, st) ==
  IF group = <<>> \/ st.exc # "none" THEN st
  ELSE parse_hfradar_group(Tail(group), kw, defaults,
                           parse_hfradar_row(Head(group), kw, defaults, st))

RECURSIVE parse_hfradar_groups(_, _, _, _)
parse_hfradar_groups(keys, d, defaults, st) ==
  IF keys = <<>> \/ st.exc # "none" THEN st
  ELSE
    LET status == Head(keys)
        group == SelectSeq(d, LAMBDA row : row.Status = status)
    IN  IF status \notin DOMAIN status_colors
        THEN [st EXCEPT !.exc = "KeyError"]
        ELSE parse_hfradar_groups(Tail(keys), d, defaults,
               parse_hfradar_group(group,
                 [platform |-> "hfradar", status |-> status_colors[status]],
                 defaults, st))

parse_hfradar(d, kw) ==
  LET defaults == kw @@ [stroke |-> "#aeccae", stroke_width |-> "1",
                         stroke_opacity |-> "0.5", fill |-> "#deffde",
                         fill_opacity |-> "0.25"]
      st == parse_hfradar_groups(groupby_Status(d), d, defaults, Locals0)
  IN  IF st.exc # "none" THEN Raise(st.exc)
      ELSE Return(FeatureCollection(st.points \o st.polygons))

\* one pass of the inner loop body, lines 140-145
parse_stations_row(row, kw, st) ==
  LET properties == [icon |-> icon(kw), name |-> row.Name,
                     popupContent |-> row.LocationDescription]
      geometry == Point(<< row.Longitude, row.Latitude >>)
  IN  [st EXCEPT !.features = Append(@, Feature(geometry, properties))]

RECURSIVE parse_stations_group(_, _, _)
parse_stations_group(group, kw, st) ==
  IF group = <<>> THEN st
  ELSE parse_stations_group(Tail(group), kw,
                            parse_stations_row(Head(group), kw, st))

\* as parse_stations_groups, a group with an unknown key being skipped
RECURSIVE parse_stations_groups_skip(_, _, _)
parse_stations_groups_skip(keys, d, st) ==
  IF keys = <<>> THEN st
  ELSE
    LET platformtype == Head(keys)[1]
        status == Head(keys)[2]
        group == SelectSeq(d, LAMBDA row : row.PlatformType = platformtype
                                           /\ row.Status = status)
    IN  IF status \notin DOMAIN status_colors
           \/ platformtype \notin DOMAIN platforms_icons
        THEN parse_stations_groups_skip(Tail(keys), d, st)
        ELSE parse_stations_groups_skip(Tail(keys), d,
               parse_stations_group(group,
                 [status |-> status_colors[status],
                  platform |-> platforms_icons[platformtype]], st))

RECURSIVE parse_stations_groups(_, _, _)
parse_stations_groups(keys, d, st) ==
  IF keys = <<>> \/ st.exc # "none" THEN st
  ELSE
    LET platformtype == Head(keys)[1]
        status == Head(keys)[2]
        group == SelectSeq(d, LAMBDA row : row.PlatformType = platformtype
                                           /\ row.Status = status)
    IN  IF status \notin DOMAIN status_colors
           \/ platformtype \notin DOMAIN platforms_icons
        THEN [st EXCEPT !.exc = "KeyError"]
        ELSE parse_stations_groups(Tail(keys), d,
               parse_stations_group(group,
                 [status |-> status_colors[status],
                  platform |-> platforms_icons[platformtype]], st))

parse_stations(d) ==
  LET st == parse_stations_groups(groupby_PlatformType_Status(d), d,
                                  [features |-> <<>>, exc |-> "none"])
  IN  IF st.exc # "none" THEN Raise(st.exc)
      ELSE Return(FeatureCollection(st.features))

\* json.dump(geojson, f, sort_keys=True, indent=2, ...): the file holds the
\* JSON document of the collection
save_geojson(gj, fname) ==
  Return([fname |-> fname, driver |-> "json", doc |-> gj])

\* as save_shapefile_loop, without the test on the geometry type
RECURSIVE save_shapefile_loop_all(_, _, _, _)
save_shapefile_loop_all(features, k, geometry, records) ==
  IF k >= Len(features) THEN records
  ELSE
    LET feature == features[k + 1]
        name == IF "name" \in DOMAIN feature.properties
                THEN feature.properties.name
                ELSE k
    IN  save_shapefile_loop_all(features, k + 1, geometry,
          Append(records, [geometry |-> feature.geometry,
                           properties |-> [name |-> name]]))

\* the loop of save_shapefile over enumerate(features), from position k on
RECURSIVE save_shapefile_loop(_, _, _, _)
save_shapefile_loop(features, k, geometry, records) ==
  IF k >= Len(features) THEN records
  ELSE
    LET feature == features[k + 1]
        name == IF "name" \in DOMAIN feature.properties
                THEN feature.properties.name
                ELSE k
    IN  save_shapefile_loop(features, k + 1, geometry,
          IF feature.geometry.type = geometry
          THEN Append(records, [geometry |-> feature.geometry,
                                properties |-> [name |-> name]])
          ELSE records)

save_shapefile(gj, fname, geometry) ==
  LET schema == [geometry |-> geometry, properties |-> [name |-> "str:80"]]
  IN  Return([fname |-> fname, driver |-> "ESRI Shapefile",
              schema |-> schema,
              records |-> save_shapefile_loop(gj.features, 0, geometry,
                                              <<>>)])

-----------------------------------------------------------------------------
(* hfradar_geojson.py                                                      *)

hf_icon(kw) == url \o "hfradar-" \o kw.status \o ".png"

hf_status_colors ==
  [Planned |-> "orange", Operational |-> "green",
   Permitting |-> "yellow", Construction |-> "yellow"]

hf_ranges == (5 :> 190) @@ (8 :> 160) @@ (12 :> 130) @@ (16 :> 100)

hf_wedge(radar) ==
  IF int(radar.MHz) \notin DOMAIN hf_ranges THEN Raise("KeyError")
  ELSE
    LET r == [num |-> hf_ranges[int(radar.MHz)] * 10, den |-> 1111]
        theta1 == radar.StartAngle
        theta2 == radar.SpreadAngle
        center == <<radar.Longitude, radar.Latitude>>
        w == Wedge(center, r, add(theta1, theta2), theta1)
    IN  IF w.exc = "ValueError" THEN Return(None) ELSE w

hf_mpl_patch2geo_polygon(p) ==
  LET vertices == get_path_vertices(p)
  IN  Polygon(<< vertices \o << vertices[Len(vertices) - 1] >> >>)

\* one pass of the inner loop body, lines 74-85
hf_df2features_row(row, kw, defaults, st) ==
  LET popupContent == << row.DisplayTitle, row.MHz >>
      properties == [icon |-> hf_icon(kw), name |-> row.index,
                     popupContent |-> popupContent]
      w == hf_wedge(row)
  IN  IF w.exc # "none" THEN [st EXCEPT !.exc = w.exc]
      ELSE
        LET bound == IF w.value # None
                     THEN << hf_mpl_patch2geo_polygon(w.value) >>
                     ELSE st.polygon
            point == Point(<< row.Longitude, row.Latitude >>)
        IN  IF bound = <<>>
            THEN [st EXCEPT !.exc = "UnboundLocalError"]
            ELSE [points |-> Append(st.points, Feature(point, properties)),
                  polygons |-> Append(st.polygons,
                                      Feature(bound[1], defaults)),
                  polygon |-> bound,
                  exc |-> "none"]

RECURSIVE hf_df2features_group(_, _, _, _)
hf_df2features_group(group, kw, defaults, st) ==
  IF group = <<>> \/ st.exc # "none" THEN st
  ELSE hf_df2features_group(Tail(group), kw, defaults,
                            hf_df2features_row(Head(group), kw, defaults, st))

RECURSIVE hf_df2features_groups(_, _, _, _)
hf_df2features_groups(keys, d, defaults, st) ==
  IF keys = <<>> \/ st.exc # "none" THEN st
  ELSE
    LET status == Head(keys)
        group == SelectSeq(d, LAMBDA row : row.Status = status)
    IN  IF status \notin DOMAIN hf_status_colors
        THEN [st EXCEPT !.exc = "KeyError"]
        ELSE hf_df2features_groups(Tail(keys), d, defaults,
               hf_df2features_group(group,
                 [status |-> hf_status_colors[status]], defaults, st))

hf_df2features(d, kw) ==
  LET defaults == kw @@ [stroke |-> "#aeccae", stroke_width |-> "1",
                         stroke_opacity |-> "0.5", fill |-> "#deffde",
                         fill_opacity |-> "0.25"]
      st == hf_df2features_groups(groupby_Status(d), d, defaults, Locals0)
  IN  IF st.exc # "none" THEN Raise(st.exc)
      ELSE Return(FeatureCollection(st.points \o st.polygons))

hf_save_json(gj, fname) ==
  Return([fname |-> fname, driver |-> "json", doc |-> gj])

RECURSIVE hf_save_shapefile_loop(_, _, _, _)
hf_save_shapefile_loop(features, k, geometry, records) ==
  IF k >= Len(features) THEN records
  ELSE
    LET feature == features[k + 1]
        name == IF "name" \in DOMAIN feature.properties
                THEN feature.properties.name
                ELSE k
    IN  hf_save_shapefile_loop(features, k + 1, geometry,
          IF feature.geometry.type = geometry
          THEN Append(records, [geometry |-> feature.geometry,
                                properties |-> [name |-> name]])
          ELSE records)

hf_save_shapefile(gj, fname, geometry) ==
  LET schema == [geometry |-> geometry, properties |-> [name |-> "str:80"]]
  IN  Return([fname |-> fname, driver |-> "ESRI Shapefile",
              schema |-> schema,
              records |-> hf_save_shapefile_loop(gj.features, 0, geometry,
                                                 <<>>)])

-----------------------------------------------------------------------------
(* stations_geojson.py                                                     *)

st_icon(kw) == url \o kw.platform \o "-" \o kw.status \o ".png"

\* as st_status_colors, the raw label standing for the color
st_status_colors_raw ==
  [Planned |-> "Planned", Operational |-> "Operational",
   Permitting |-> "Permitting", Construction |-> "Construction"]

st_status_colors ==
  [Planned |-> "orange", Operational |-> "green",
   Permitting |-> "yellow", Construction |-> "yellow"]

st_platforms_icons ==
  ("Fixed Surface Buoy" :> "buoy") @@ ("Fixed Bottom Station" :> "circ") @@
  ("Fixed Bottom Mount Mooring" :> "tri") @@
  ("Fixed Coastal Station" :> "shore_station")

\* one pass of the inner loop body, lines 46-51
st_df2features_row(row, kw, st) ==
  LET properties == [icon |-> st_icon(kw), name |-> row.Name,
                     popupContent |-> row.LocationDescription]
      geometry == Point(<< row.Longitude, row.Latitude >>)
  IN  [st EXCEPT !.features = Append(@, Feature(geometry, properties))]

RECURSIVE st_df2features_group(_, _, _)
st_df2features_group(group, kw, st) ==
  IF group = <<>> THEN st
  ELSE st_df2features_group(Tail(group), kw,
                            st_df2features_row(Head(group), kw, st))

RECURSIVE st_df2features_groups(_, _, _)
st_df2features_groups(keys, d, st) ==
  IF keys = <<>> \/ st.exc # "none" THEN st
  ELSE
    LET platformtype == Head(keys)[1]
        status == Head(keys)[2]
        group == SelectSeq(d, LAMBDA row : row.PlatformType = platformtype
                                           /\ row.Status = status)
    IN  IF status \notin DOMAIN st_status_colors
           \/ platformtype \notin DOMAIN st_platforms_icons
        THEN [st EXCEPT !.exc = "KeyError"]
        ELSE st_df2features_groups(Tail(keys), d,
               st_df2features_group(group,
                 [status |-> st_status_colors[status],
                  platform |-> st_platforms_icons[platformtype]], st))

st_df2features(d) ==
  LET st == st_df2features_groups(groupby_PlatformType_Status(d), d,
                                  [features |-> <<>>, exc |-> "none"])
  IN  IF st.exc # "none" THEN Raise(st.exc)
      ELSE Return(FeatureCollection(st.features))

st_save_json(gj, fname) ==
  Return([fname |-> fname, driver |-> "json", doc |-> gj])

\* the loop of save_shapefile; st is [records, exc].  The name is looked up
\* without a fallback (KeyError); the file's schema is Point and fiona's
\* write refuses a record of another geometry type (ValueError).
RECURSIVE st_save_shapefile_loop(_, _)
st_save_shapefile_loop(features, st) ==
  IF features = <<>> \/ st.exc # "none" THEN st
  ELSE
    LET feature == Head(features)
    IN  st_save_shapefile_loop(Tail(features),
          IF "name" \notin DOMAIN feature.properties
          THEN [st EXCEPT !.exc = "KeyError"]
          ELSE IF feature.geometry.type # "Point"
          THEN [st EXCEPT !.exc = "ValueError"]
          ELSE [st EXCEPT !.records =
                  Append(@, [geometry |-> feature.geometry,
                             properties |->
                               [name |-> feature.properties.name]])])

\* an exception leaves the with block, which closes the file: what was
\* written so far stays on disk
st_save_shapefile(gj, fname) ==
  LET schema == [geometry |-> "Point", properties |-> [name |-> "str:80"]]
      st == st_save_shapefile_loop(gj.features,
                                   [records |-> <<>>, exc |-> "none"])
  IN  [exc |-> st.exc,
       value |-> [fname |-> fname, driver |-> "ESRI Shapefile",
                  schema |-> schema, records |-> st.records]]

-----------------------------------------------------------------------------
(* Input tables                                                            *)

Labels == << "A", "B", "C", "D", "E" >>

RadarCells ==
  [Status : {"Operational", "Construction", "Decommissioned"},
   MHz : {50, 85, 130},
   StartAngle : {<<30>>, NaN},
   SpreadAngle : {<<120>>},
   Longitude : {-80, -77},
   Latitude : {28},
   DisplayTitle : {"Site"}]

StationCells ==
  [PlatformType : {"Fixed Surface Buoy", "Fixed Bottom Station",
                   "HFRadar", "Glider"},
   Status : {"Operational", "Construction", "Decommissioned"},
   Longitude : {-80, -77},
   Latitude : {28},
   LocationDescription : {"Offshore"}]

\* the radar sheet is read with index_col=3: the label is the row's index
RadarTable(c) == [i \in DOMAIN c |-> [index |-> Labels[i]] @@ c[i]]

\* the stations sheet has a Name column
StationTable(c) == [i \in DOMAIN c |-> [Name |-> Labels[i]] @@ c[i]]

\* pd.read_excel delivers some table of at most n rows
ReadRadar(d, cells, n) ==
  \E k \in 0..n : \E c \in [1..k -> cells] : d = RadarTable(c)

ReadStationsSheet(d, cells, n) ==
  \E k \in 0..n : \E c \in [1..k -> cells] : d = StationTable(c)

-----------------------------------------------------------------------------
(* The parsers applied to a table                                          *)

InitParse ==
  /\ pc = "start"
  /\ \/ ReadRadar(df, RadarCells, MaxRows)
     \/ ReadStationsSheet(df, StationCells, MaxRows)
  /\ geojson = None
  /\ files = <<>>
  /\ exc = "none"
  /\ patch = None
  /\ polygon = None

IsRadar(d) == \A i \in DOMAIN d : "MHz" \in DOMAIN d[i]
IsStations(d) == \A i \in DOMAIN d : "PlatformType" \in DOMAIN d[i]

Deliver(where, res) ==
  /\ pc' = where
  /\ geojson' = res.value
  /\ exc' = res.exc
  /\ UNCHANGED <<df, files, patch, polygon>>

CallParseHfradar ==
  /\ pc = "start" /\ IsRadar(df)
  /\ Deliver("parse_hfradar", parse_hfradar(df, EmptyDict))

CallHfDf2features ==
  /\ pc = "start" /\ IsRadar(df)
  /\ Deliver("hf_df2features", hf_df2features(df, EmptyDict))

CallParseStations ==
  /\ pc = "start" /\ IsStations(df)
  /\ Deliver("parse_stations", parse_stations(df))

CallStDf2features ==
  /\ pc = "start" /\ IsStations(df)
  /\ Deliver("st_df2features", st_df2features(df))

NextParse ==
  \/ CallParseHfradar
  \/ CallHfDf2features
  \/ CallParseStations
  \/ CallStDf2features

SpecParse == InitParse /\ [][NextParse]_vars

-----------------------------------------------------------------------------
(* Vocabulary of the properties                                            *)

KnownStatus == {"Planned", "Operational", "Permitting", "Construction"}
KnownBands == {5, 8, 12, 16}

RadarParsers == {"parse_hfradar", "hf_df2features"}
StationParsers == {"parse_stations", "st_df2features"}
Returned == exc = "none" /\ geojson # None

Label(row) == IF "index" \in DOMAIN row THEN row.index ELSE row.Name
RowNamed(n) == df[CHOOSE i \in DOMAIN df : Label(df[i]) = n]
InputPos(n) == CHOOSE i \in DOMAIN df : Label(df[i]) = n

PointsOf(fs) == SelectSeq(fs, LAMBDA f : f.geometry.type = "Point")
PolygonsOf(fs) == SelectSeq(fs, LAMBDA f : f.geometry.type = "Polygon")

WedgeSucceeds(row) == wedge(row).exc = "none" /\ wedge(row).value # None
WedgeFails(row) == wedge(row).exc = "none" /\ wedge(row).value = None

AllCategoriesKnown ==
  \A i \in DOMAIN df :
    /\ df[i].Status \in KnownStatus
    /\ "PlatformType" \in DOMAIN df[i]
         => df[i].PlatformType \in DOMAIN platforms_icons
    /\ "MHz" \in DOMAIN df[i] => int(df[i].MHz) \in KnownBands

\* exactly one Point feature per row of df, at the row's [Longitude, Latitude]
OnePointPerRow ==
  LET pts == PointsOf(geojson.features)
  IN  /\ Len(pts) = Len(df)
      /\ \A i \in DOMAIN df :
           \E k \in DOMAIN pts :
             /\ pts[k].properties.name = Label(df[i])
             /\ pts[k].geometry.coordinates
                  = << df[i].Longitude, df[i].Latitude >>
             /\ \A m \in DOMAIN pts :
                  pts[m].properties.name = Label(df[i]) => m = k

-----------------------------------------------------------------------------
(* C1: for a table whose rows all pass category validation (recognized     *)
(* status, station platform type and radar band), parse_stations and       *)
(* parse_hfradar return a collection with exactly one Point feature per    *)
(* input row, at [Longitude, Latitude] of that row.                        *)

C1_OnePointPerRow ==
  (pc \in {"parse_stations", "parse_hfradar"} /\ AllCategoriesKnown)
    => (Returned /\ OnePointPerRow)

(* C2: after parse_hfradar or hf_df2features on a table whose lookups all  *)
(* succeed, every row is there as a point feature and the polygon features *)
(* are as many as the rows whose wedge construction succeeded: a row whose *)
(* wedge() is None contributes no polygon, wherever it sits.               *)

C2_NoPolygonForFailedWedge ==
  (pc \in RadarParsers /\ AllCategoriesKnown)
    => /\ Returned
       /\ OnePointPerRow
       /\ Len(PolygonsOf(geojson.features))
            = Cardinality({i \in DOMAIN df : WedgeSucceeds(df[i])})

(* C3: a row with a status outside the four known ones, a station platform *)
(* type outside the script's platforms_icons, or a radar band int(MHz)     *)
(* outside 5, 8, 12, 16 makes the parse raise: no collection is returned.  *)

HasUnknownKey ==
  \E i \in DOMAIN df :
    \/ df[i].Status \notin KnownStatus
    \/ /\ pc = "parse_stations"
       /\ df[i].PlatformType \notin DOMAIN platforms_icons
    \/ /\ pc = "st_df2features"
       /\ df[i].PlatformType \notin DOMAIN st_platforms_icons
    \/ /\ pc \in RadarParsers
       /\ int(df[i].MHz) \notin KnownBands

C3_UnknownKeyAborts ==
  (pc \in RadarParsers \cup StationParsers /\ HasUnknownKey)
    => (exc # "none" /\ geojson = None)

C3_Witness ==
  /\ pc \in RadarParsers \cup StationParsers
  /\ Len(df) = 2
  /\ df[1].Status \in KnownStatus
  /\ HasUnknownKey
  /\ exc = "KeyError"

(* C5: in a returned collection the point features come first, ordered by  *)
(* ascending group key (Status; PlatformType then Status) and by input     *)
(* position within a group; the polygon features follow, in the row order  *)
(* of the point features.                                                  *)

KeyBefore(a, b) ==
  IF "PlatformType" \in DOMAIN a
  THEN \/ Rank(a.PlatformType) < Rank(b.PlatformType)
       \/ /\ a.PlatformType = b.PlatformType
          /\ Rank(a.Status) < Rank(b.Status)
  ELSE Rank(a.Status) < Rank(b.Status)

SameKey(a, b) == ~KeyBefore(a, b) /\ ~KeyBefore(b, a)

C5_Ordered ==
  (pc \in RadarParsers \cup StationParsers /\ Returned)
    => LET fs == geojson.features
           pts == PointsOf(fs)
           pls == PolygonsOf(fs)
       IN  /\ fs = pts \o pls
           /\ \A j, k \in DOMAIN pts :
                j < k =>
                  LET a == RowNamed(pts[j].properties.name)
                      b == RowNamed(pts[k].properties.name)
                  IN  \/ KeyBefore(a, b)
                      \/ /\ SameKey(a, b)
                         /\ InputPos(pts[j].properties.name)
                              < InputPos(pts[k].properties.name)
           /\ \E f \in [DOMAIN pls -> DOMAIN pts] :
                /\ \A j, k \in DOMAIN pls : j < k => f[j] <= f[k]
                /\ \A j \in DOMAIN pls :
                     LET row == RowNamed(pts[f[j]].properties.name)
                     IN  /\ WedgeSucceeds(row)
                         /\ pls[j].geometry
                              = mpl_patch2geo_polygon(wedge(row).value)

C5_Witness ==
  /\ pc = "parse_hfradar"
  /\ Returned
  /\ Len(df) = 2
  /\ df[1].Status = "Operational"
  /\ df[2].Status = "Construction"
  /\ Len(geojson.features) = 4
  /\ geojson.features[1].properties.name = "B"
  /\ geojson.features[3].geometry # geojson.features[4].geometry

(* C6: every point feature's icon is url + "<p>-<c>.png" with c the color  *)
(* status_colors[Status] and p the mapped platforms_icons[PlatformType]    *)
(* (stations) or "hfradar" (radar), in every script alike.                 *)

C6_IconFromMappedStrings ==
  (pc \in RadarParsers \cup StationParsers /\ Returned)
    => \A k \in DOMAIN geojson.features :
         LET f == geojson.features[k]
         IN  f.geometry.type = "Point" =>
               LET row == RowNamed(f.properties.name)
                   c == status_colors[row.Status]
                   p == IF pc \in StationParsers
                        THEN platforms_icons[row.PlatformType]
                        ELSE "hfradar"
               IN  f.properties.icon = url \o p \o "-" \o c \o ".png"

C6_Witness ==
  /\ pc = "st_df2features"
  /\ Returned
  /\ Len(df) = 1
  /\ df[1].PlatformType = "Fixed Surface Buoy"
  /\ df[1].Status = "Operational"
  /\ geojson.features[1].properties.icon = url \o "buoy-green.png"

-----------------------------------------------------------------------------
(* wedge and mpl_patch2geo_polygon applied to one radar row                *)

WedgeCells ==
  [index : {"A"},
   Status : {"Operational"},
   MHz : {50, 85, 125, 130, 160, 250},
   StartAngle : {<<0>>, <<30>>, <<300>>, NaN},
   SpreadAngle : {<<0>>, <<120>>, <<270>>, NaN},
   Longitude : {-80},
   Latitude : {28},
   DisplayTitle : {"Site"}]

InitWedge ==
  /\ pc = "start"
  /\ df \in { << c >> : c \in WedgeCells }
  /\ geojson = None
  /\ files = <<>>
  /\ exc = "none"
  /\ patch = None
  /\ polygon = None

CallWedge ==
  /\ pc = "start"
  /\ pc' = "wedge"
  /\ patch' = wedge(df[1]).value
  /\ exc' = wedge(df[1]).exc
  /\ UNCHANGED <<df, geojson, files, polygon>>

CallHfWedge ==
  /\ pc = "start"
  /\ pc' = "hf_wedge"
  /\ patch' = hf_wedge(df[1]).value
  /\ exc' = hf_wedge(df[1]).exc
  /\ UNCHANGED <<df, geojson, files, polygon>>

CallMplPatch2GeoPolygon ==
  /\ pc = "wedge" /\ exc = "none" /\ patch # None
  /\ pc' = "mpl_patch2geo_polygon"
  /\ polygon' = mpl_patch2geo_polygon(patch)
  /\ UNCHANGED <<df, geojson, files, exc, patch>>

CallHfMplPatch2GeoPolygon ==
  /\ pc = "hf_wedge" /\ exc = "none" /\ patch # None
  /\ pc' = "hf_mpl_patch2geo_polygon"
  /\ polygon' = hf_mpl_patch2geo_polygon(patch)
  /\ UNCHANGED <<df, geojson, files, exc, patch>>

NextWedge ==
  \/ CallWedge
  \/ CallHfWedge
  \/ CallMplPatch2GeoPolygon
  \/ CallHfMplPatch2GeoPolygon

SpecWedge == InitWedge /\ [][NextWedge]_vars

NumericAngles(row) == row.StartAngle # NaN /\ row.SpreadAngle # NaN
NonDegenerate(row) ==
  /\ NumericAngles(row)
  /\ row.SpreadAngle[1] % 360 # 0

(* C8: for a radar row with a band in 5, 8, 12, 16 and non-degenerate      *)
(* angles a wedge is built, and the polygon made from it has one ring: the *)
(* path's vertex list followed by its second-to-last vertex; the ring's    *)
(* first and last coordinates are equal and it has at least 3 vertices.    *)

C8_RingClosed ==
  /\ (pc \in {"wedge", "hf_wedge"} /\ int(df[1].MHz) \in KnownBands
        /\ NonDegenerate(df[1]))
       => (exc = "none" /\ patch # None)
  /\ pc \in {"mpl_patch2geo_polygon", "hf_mpl_patch2geo_polygon"}
       => LET v == get_path_vertices(patch)
              ring == polygon.coordinates[1]
          IN  /\ polygon.type = "Polygon"
              /\ Len(polygon.coordinates) = 1
              /\ Len(ring) = Len(v) + 1
              /\ \A i \in DOMAIN v : ring[i] = v[i]
              /\ ring[Len(ring)] = v[Len(v) - 1]
              /\ ring[1] = ring[Len(ring)]
              /\ Len(ring) >= 3

C8_Witness ==
  /\ pc = "mpl_patch2geo_polygon"
  /\ int(df[1].MHz) = 12
  /\ NonDegenerate(df[1])
  /\ polygon.coordinates[1][1].pt = 1
  /\ polygon.coordinates[1][Len(polygon.coordinates[1]) - 1].pt = 0

(* C9 as stated: the first angle handed to Wedge is StartAngle and the     *)
(* second is StartAngle + SpreadAngle, the sector swept from the first to  *)
(* the second having angular extent SpreadAngle.                           *)

C9_StartThenEnd ==
  (pc \in {"wedge", "hf_wedge"} /\ exc = "none" /\ patch # None)
    => /\ patch.theta1 = df[1].StartAngle[1]
       /\ patch.theta2 = df[1].StartAngle[1] + df[1].SpreadAngle[1]
       /\ NonDegenerate(df[1])
            => Sweep(patch.theta1, patch.theta2) = df[1].SpreadAngle[1] % 360

(* C9 amended: wedge(radar) builds the wedge with center (Longitude,       *)
(* Latitude) and radius ranges[int(MHz)] / 111.1; the first angle handed   *)
(* to Wedge is StartAngle + SpreadAngle and the second is StartAngle, so   *)
(* that for 0 < SpreadAngle < 360 the sector swept from the first to the   *)
(* second has angular extent 360 - SpreadAngle.                            *)

C9_EndThenStart ==
  (pc \in {"wedge", "hf_wedge"} /\ exc = "none" /\ patch # None)
    => /\ patch.center = << df[1].Longitude, df[1].Latitude >>
       /\ patch.r.num * 1111
            = ranges[int(df[1].MHz)] * 10 * patch.r.den
       /\ patch.theta1 = df[1].StartAngle[1] + df[1].SpreadAngle[1]
       /\ patch.theta2 = df[1].StartAngle[1]
       /\ (0 < df[1].SpreadAngle[1] /\ df[1].SpreadAngle[1] < 360)
            => Sweep(patch.theta1, patch.theta2)
                 = 360 - df[1].SpreadAngle[1]

C9_Witness ==
  /\ pc = "hf_wedge"
  /\ exc = "none"
  /\ patch # None
  /\ df[1].StartAngle = <<30>>
  /\ df[1].SpreadAngle = <<120>>
  /\ patch.theta1 = 150
  /\ patch.theta2 = 30

-----------------------------------------------------------------------------
(* save_shapefile applied to a feature collection                          *)

SamplePolygon ==
  mpl_patch2geo_polygon([center |-> <<-80, 28>>,
                         r |-> [num |-> 1000, den |-> 1111],
                         theta1 |-> 90, theta2 |-> 30])

SampleFeatures ==
  { Feature(g, p) :
      g \in { Point(<<-80, 28>>), SamplePolygon },
      p \in { [name |-> "A"], [name |-> "B"], [stroke |-> "#aeccae"] } }

Collections(n) ==
  UNION { { FeatureCollection(fs) : fs \in [1..k -> SampleFeatures] } :
          k \in 0..n }

InitShp ==
  /\ pc = "start"
  /\ df = <<>>
  /\ geojson \in Collections(MaxFeatures)
  /\ files = <<>>
  /\ exc = "none"
  /\ patch = None
  /\ polygon = None

Written(where, res) ==
  /\ pc' = where
  /\ files' = Append(files, res.value)
  /\ exc' = res.exc
  /\ UNCHANGED <<df, geojson, patch, polygon>>

CallSaveShapefile ==
  /\ pc = "start"
  /\ \E geometry \in {"Point", "Polygon"} :
       Written("save_shapefile", save_shapefile(geojson, "out.shp", geometry))

CallHfSaveShapefile ==
  /\ pc = "start"
  /\ \E geometry \in {"Point", "Polygon"} :
       Written("hf_save_shapefile",
               hf_save_shapefile(geojson, "out.shp", geometry))

CallStSaveShapefile ==
  /\ pc = "start"
  /\ Written("st_save_shapefile", st_save_shapefile(geojson, "out.shp"))

NextShp ==
  \/ CallSaveShapefile
  \/ CallHfSaveShapefile
  \/ CallStSaveShapefile

SpecShp == InitShp /\ [][NextShp]_vars

LastFile == files[Len(files)]

\* positions (1-based) of the features of geometry type g, and the j-th of them
OfType(g) ==
  {i \in DOMAIN geojson.features : geojson.features[i].geometry.type = g}
NthOfType(g, j) ==
  CHOOSE i \in OfType(g) : Cardinality({m \in OfType(g) : m < i}) = j - 1

(* C4: save_shapefile(geojson, fname, geometry=G) writes one record for     *)
(* each feature of geometry type G, in collection order, and nothing else; *)
(* a record has the feature's geometry and the single attribute name.      *)

C7_NameFallsBackToIndex ==
  pc \in {"save_shapefile", "hf_save_shapefile", "st_save_shapefile"}
    => LET G == LastFile.schema.geometry
           recs == LastFile.records
       IN  (\E i \in OfType(G) :
              "name" \notin DOMAIN geojson.features[i].properties)
             => /\ exc # "KeyError"
                /\ \A j \in 1..Cardinality(OfType(G)) :
                     "name" \notin
                        DOMAIN geojson.features[NthOfType(G, j)].properties
                       => /\ j \in DOMAIN recs
                          /\ recs[j].properties.name = NthOfType(G, j) - 1

-----------------------------------------------------------------------------
(* data_frame2gis.py run as a script: pc is the line about to execute      *)

MainStationCells ==
  { c \in StationCells :
      /\ c.Longitude = -80
      /\ c.PlatformType \in {"Fixed Surface Buoy", "Glider"} }

MainRadarCells ==
  { c \in RadarCells : c.Longitude = -80 /\ c.MHz # 85 }

Init ==
  /\ pc = "L188"
  /\ df = <<>>
  /\ geojson = None
  /\ files = <<>>
  /\ exc = "none"
  /\ patch = None
  /\ polygon = None

\* df = pd.read_excel(fname, index_col=2)
ReadStations ==
  /\ pc = "L188"
  /\ ReadStationsSheet(df', MainStationCells, MaxMainRows)
  /\ pc' = "L190"
  /\ UNCHANGED <<geojson, files, exc, patch, polygon>>

\* geojson = parse_stations(df)
MainParseStations ==
  /\ pc = "L190"
  /\ LET res == parse_stations(df)
     IN  /\ exc' = res.exc
         /\ geojson' = IF res.exc = "none" THEN res.value ELSE geojson
         /\ pc' = IF res.exc = "none" THEN "L191" ELSE "traceback"
  /\ UNCHANGED <<df, files, patch, polygon>>

\* save_geojson(geojson, fname=os.path.join(save, "stations.geojson"))
MainSaveGeojsonStations ==
  /\ pc = "L191"
  /\ files' = Append(files, save_geojson(geojson,
                                         "data/stations.geojson").value)
  /\ pc' = "L192"
  /\ UNCHANGED <<df, geojson, exc, patch, polygon>>

\* save_shapefile(geojson, fname=..."stations.shp", geometry="Point")
MainSaveShapefileStations ==
  /\ pc = "L192"
  /\ files' = Append(files, save_shapefile(geojson, "data/stations.shp",
                                           "Point").value)
  /\ pc' = "L197"
  /\ UNCHANGED <<df, geojson, exc, patch, polygon>>

\* df = pd.read_excel(fname, index_col=3)
ReadHfradar ==
  /\ pc = "L197"
  /\ ReadRadar(df', MainRadarCells, MaxMainRows)
  /\ pc' = "L199"
  /\ UNCHANGED <<geojson, files, exc, patch, polygon>>

\* as MainParseHfradar, the exception being swallowed
MainParseHfradar_swallow ==
  /\ pc = "L199"
  /\ LET res == parse_hfradar(df, EmptyDict)
     IN  /\ exc' = res.exc
         /\ geojson' = IF res.exc = "none" THEN res.value ELSE geojson
         /\ pc' = "L200"
  /\ UNCHANGED <<df, files, patch, polygon>>

\* geojson = parse_hfradar(df)
MainParseHfradar ==
  /\ pc = "L199"
  /\ LET res == parse_hfradar(df, EmptyDict)
     IN  /\ exc' = res.exc
         /\ geojson' = IF res.exc = "none" THEN res.value ELSE geojson
         /\ pc' = IF res.exc = "none" THEN "L200" ELSE "traceback"
  /\ UNCHANGED <<df, files, patch, polygon>>

\* save_geojson(geojson, fname=os.path.join(save, "hfradar.geojson"))
MainSaveGeojsonHfradar ==
  /\ pc = "L200"
  /\ files' = Append(files, save_geojson(geojson,
                                         "data/hfradar.geojson").value)
  /\ pc' = "L201"
  /\ UNCHANGED <<df, geojson, exc, patch, polygon>>

\* save_shapefile(geojson, fname=..."hfradar_point.shp", geometry="Point")
MainSaveShapefilePoint ==
  /\ pc = "L201"
  /\ files' = Append(files, save_shapefile(geojson, "data/hfradar_point.shp",
                                           "Point").value)
  /\ pc' = "L203"
  /\ UNCHANGED <<df, geojson, exc, patch, polygon>>

\* save_shapefile(geojson, fname=..."hfradar_polygon.shp", geometry="Polygon")
MainSaveShapefilePolygon ==
  /\ pc = "L203"
  /\ files' = Append(files, save_shapefile(geojson,
                                           "data/hfradar_polygon.shp",
                                           "Polygon").value)
  /\ pc' = "exit"
  /\ UNCHANGED <<df, geojson, exc, patch, polygon>>

Next ==
  \/ ReadStations
  \/ MainParseStations
  \/ MainSaveGeojsonStations
  \/ MainSaveShapefileStations
  \/ ReadHfradar
  \/ MainParseHfradar
  \/ MainSaveGeojsonHfradar
  \/ MainSaveShapefilePoint
  \/ MainSaveShapefilePolygon

Spec == Init /\ [][Next]_vars

OutputOrder ==
  << "data/stations.geojson", "data/stations.shp", "data/hfradar.geojson",
     "data/hfradar_point.shp", "data/hfradar_polygon.shp" >>

StationsFiles == {"data/stations.geojson", "data/stations.shp"}

\* the collection the table in df builds, None if the build raises
Built ==
  IF IsStations(df) /\ pc \in {"L190", "L191", "L192", "L197"}
  THEN parse_stations(df).value
  ELSE parse_hfradar(df, EmptyDict).value

(* C10: in a run of the script the files are written in the order          *)
(* stations.geojson, stations.shp, hfradar.geojson, hfradar_point.shp,     *)
(* hfradar_polygon.shp; a file is written only from the completely built   *)
(* collection of its own table; a lookup error while building a            *)
(* collection ends the run with no file of that table written and no       *)
(* further step.                                                           *)

C10_MainOrder ==
  /\ [](/\ Len(files) <= Len(OutputOrder)
        /\ \A i \in DOMAIN files : files[i].fname = OutputOrder[i]
        /\ exc # "none" =>
             /\ pc = "traceback"
             /\ IF IsStations(df) /\ df # <<>> THEN files = <<>>
                ELSE \A i \in DOMAIN files : files[i].fname \in StationsFiles)
  /\ [][/\ pc # "traceback"
        /\ files' # files =>
             /\ Len(files') = Len(files) + 1
             /\ geojson # None /\ geojson = Built /\ geojson' = geojson
             /\ LET file == files'[Len(files')]
                IN  IF file.driver = "json" THEN file.doc = geojson
                    ELSE file.records
                           = save_shapefile(geojson, file.fname,
                                            file.schema.geometry).value.records
       ]_vars

C10_Witness ==
  /\ pc = "traceback"
  /\ exc = "KeyError"
  /\ IsRadar(df) /\ df # <<>>
  /\ Len(files) = 2
  /\ Len(files[2].records) = 1

====
